---- MODULE Spec2Model ----
(***************************************************************************)
(* Model of examples/00_understanding_deepsurv.py: a linear script that    *)
(* loads a survival dataset, sorts it by descending time, compiles a       *)
(* network with a closure-parameterised Cox loss, trains it with the       *)
(* TerminateOnNaN and ModelCheckpoint callbacks, reloads the checkpoint    *)
(* and prints two concordance indices.                                     *)
(*                                                                         *)
(* Numbers.  A float32 is a record [k, n, d, m]:                           *)
(*   k = "fin"   the finite real ln(n/d) + 200*m, n and d coprime and      *)
(*               positive, m an integer (so Fin(1,1) is 0.0, Fin(2,1) is   *)
(*               ln 2, Big is 200.0 and Small is -200.0).  |ln(n/d)| is    *)
(*               far below 80, so a value with m > 0 is above the range    *)
(*               of float32 exp (exp overflows to inf) and a value with    *)
(*               m < 0 is below it (exp underflows to 0.0);                *)
(*   k = "pinf", "ninf", "nan"  the IEEE specials.                         *)
(* The results of exp (hazard ratios) live on the linear scale and are     *)
(* records with k = "pos" (the rational n/d > 0), "zero" or "pinf".        *)
(* With this encoding exp, log, +, - and < are exact; rounding is not      *)
(* modelled.                                                               *)
(***************************************************************************)
EXTENDS Integers, Sequences, FiniteSets, TLC

(* ------------------------------ bounds -------------------------------- *)
MaxPatients == 2      \* training sets hold 1..MaxPatients patients
MaxTime == 2          \* survival times are drawn from 1..MaxTime
MaxLoss == 2          \* finite epoch losses are ln(1) .. ln(MaxLoss)
MaxScore == 1         \* tracked scores are k*ln(2), k in -MaxScore..MaxScore

(* --------------------------- float32 values --------------------------- *)
RECURSIVE GCD(_, _)
GCD(a, b) == IF b = 0 THEN a ELSE GCD(b, a % b)

RECURSIVE Pow(_, _)
Pow(b, e) == IF e = 0 THEN 1 ELSE b * Pow(b, e - 1)

Val(k, n, d, m) == [k |-> k, n |-> n, d |-> d, m |-> m]
FinM(n, d, m) == LET g == GCD(n, d) IN Val("fin", n \div g, d \div g, m)
Fin(n, d) == FinM(n, d, 0)
Zero == Fin(1, 1)
Big == FinM(1, 1, 1)
Small == FinM(1, 1, -1)
PInf == Val("pinf", 1, 1, 0)
NInf == Val("ninf", 1, 1, 0)
NaN == Val("nan", 1, 1, 0)

Pos(n, d) == LET g == GCD(n, d) IN Val("pos", n \div g, d \div g, 0)
HZero == Val("zero", 0, 1, 0)
HInf == Val("pinf", 1, 1, 0)
HNaN == Val("hnan", 1, 1, 0)

IsFinite(v) == v.k = "fin"

\* tf.math.exp on one element: float32 exp overflows to inf and underflows to 0.
ExpF(v) ==
  CASE v.k = "fin" /\ v.m = 0 -> Pos(v.n, v.d)
    [] v.k = "fin" /\ v.m > 0 -> HInf
    [] v.k = "fin" /\ v.m < 0 -> HZero
    [] v.k = "pinf" -> HInf
    [] v.k = "ninf" -> HZero
    [] OTHER -> HNaN

\* float addition on the linear scale (the accumulation step of cumsum).
AddH(a, b) ==
  IF a.k = "hnan" \/ b.k = "hnan" THEN HNaN
  ELSE IF a.k = "pinf" \/ b.k = "pinf" THEN HInf
  ELSE IF a.k = "zero" THEN b
  ELSE IF b.k = "zero" THEN a
  ELSE Pos(a.n * b.d + b.n * a.d, a.d * b.d)

\* tf.math.log on one element: log(0) = -inf, log(inf) = inf.
LogF(h) ==
  CASE h.k = "pos" -> Fin(h.n, h.d)
    [] h.k = "zero" -> NInf
    [] h.k = "pinf" -> PInf
    [] OTHER -> NaN

\* -a
NegF(a) ==
  CASE a.k = "fin" -> FinM(a.d, a.n, 0 - a.m)
    [] a.k = "pinf" -> NInf
    [] a.k = "ninf" -> PInf
    [] OTHER -> a

\* a + b on float32 scores and log-risks.
AddF(a, b) ==
  IF a.k = "nan" \/ b.k = "nan" THEN NaN
  ELSE IF a.k = "pinf" THEN (IF b.k = "ninf" THEN NaN ELSE PInf)
  ELSE IF a.k = "ninf" THEN (IF b.k = "pinf" THEN NaN ELSE NInf)
  ELSE IF b.k = "pinf" THEN PInf
  ELSE IF b.k = "ninf" THEN NInf
  ELSE LET g1 == GCD(a.n, b.d)
           g2 == GCD(b.n, a.d)
       IN FinM((a.n \div g1) * (b.n \div g2), (a.d \div g2) * (b.d \div g1),
               a.m + b.m)

\* a - b
SubF(a, b) == AddF(a, NegF(b))

\* a * e for an event indicator e in {0, 1}: 0 * inf and 0 * nan are nan.
MulE(a, e) ==
  IF e = 1 THEN a
  ELSE IF IsFinite(a) THEN Zero ELSE NaN

\* a * m for a non-negative integer m (used to state the normalisation).
ScaleF(a, m) ==
  IF m = 0 THEN (IF IsFinite(a) THEN Zero ELSE NaN)
  ELSE IF a.k = "fin" THEN FinM(Pow(a.n, m), Pow(a.d, m), a.m * m)
  ELSE a

\* a / c for a positive integer constant c (the code divides by 1): the
\* value w with w * c = a, for the finite a that have one in this encoding.
DivF(a, c) ==
  IF c = 1 \/ a.k # "fin" THEN a
  ELSE CHOOSE w \in {FinM(r, s, a.m \div c) : r \in 1..a.n, s \in 1..a.d} :
         ScaleF(w, c) = a

\* np.less(a, b): every comparison with nan is False; finite values compare
\* by their 200*m part first (|ln(n/d)| is far below 200).
LessF(a, b) ==
  IF a.k = "nan" \/ b.k = "nan" THEN FALSE
  ELSE IF a.k = "ninf" THEN b.k # "ninf"
  ELSE IF b.k = "pinf" THEN a.k # "pinf"
  ELSE IF a.k = "pinf" \/ b.k = "ninf" THEN FALSE
  ELSE IF a.m # b.m THEN a.m < b.m
  ELSE a.n * b.d < b.n * a.d

(* ------------------------------ tensors ------------------------------- *)
\* A rank-2 tensor is a sequence of rows; a rank-1 array is a sequence.
Rows(A) == Len(A)
Cols(A) == IF Len(A) = 0 THEN 0 ELSE Len(A[1])

\* The (N,1) output of the last Dense(1) layer for the scores h.
Column(h) == [i \in 1..Len(h) |-> <<h[i]>>]

TfExp(A) == [i \in 1..Rows(A) |-> [j \in 1..Cols(A) |-> ExpF(A[i][j])]]
TfLog(A) == [i \in 1..Rows(A) |-> [j \in 1..Cols(A) |-> LogF(A[i][j])]]

\* tf.math.cumsum(x): the default axis is 0, so each column is accumulated
\* down the rows and the shape is kept.
RECURSIVE ColSum(_, _, _)
ColSum(A, i, j) == IF i = 1 THEN A[1][j] ELSE AddH(ColSum(A, i - 1, j), A[i][j])
TfCumsum(A) == [i \in 1..Rows(A) |-> [j \in 1..Cols(A) |-> ColSum(A, i, j)]]

TfTranspose(A) == [j \in 1..Cols(A) |-> [i \in 1..Rows(A) |-> A[i][j]]]

\* Broadcasting of two rank-2 operands: a dimension of size 1 is stretched.
Max(a, b) == IF a >= b THEN a ELSE b
At(A, i, j) == A[IF Rows(A) = 1 THEN 1 ELSE i][IF Cols(A) = 1 THEN 1 ELSE j]
BroadcastSub(A, B) ==
  [i \in 1..Max(Rows(A), Rows(B)) |->
     [j \in 1..Max(Cols(A), Cols(B)) |-> SubF(At(A, i, j), At(B, i, j))]]
\* A rank-2 tensor times a rank-1 array e: e is aligned with the LAST axis.
BroadcastMulVec(A, e) ==
  [i \in 1..Rows(A) |-> [j \in 1..Max(Cols(A), Len(e)) |-> MulE(At(A, i, j), e[j])]]

\* tf.math.reduce_sum over all elements, row by row.
RECURSIVE SumSeq(_, _)
SumSeq(s, n) == IF n = 0 THEN Zero ELSE AddF(SumSeq(s, n - 1), s[n])
RECURSIVE SumRows(_, _)
SumRows(A, n) ==
  IF n = 0 THEN Zero ELSE AddF(SumRows(A, n - 1), SumSeq(A[n], Len(A[n])))
TfReduceSum(A) == SumRows(A, Rows(A))

(* --------------------------- the loss function ------------------------ *)
num_observed_events == 1

\* negative_log_likelihood(E)(y_true, y_pred): y_pred is the (N,1) tensor of
\* scores, E the rank-1 array of event indicators captured by the closure
\* (E_train is indexed like the flat Y_train at lines 96-97).  The (1,N) row
\* tf.transpose(y_pred) minus the (N,1) column log_risk is an (N,N) matrix.
hazard_ratio(y_pred) == TfExp(y_pred)
log_risk(y_pred) == TfLog(TfCumsum(hazard_ratio(y_pred)))
uncensored_likelihood(y_pred) == BroadcastSub(TfTranspose(y_pred), log_risk(y_pred))
censored_likelihood(E, y_pred) == BroadcastMulVec(uncensored_likelihood(y_pred), E)
neg_likelihood_(E, y_pred) == NegF(TfReduceSum(censored_likelihood(E, y_pred)))
\* Faulty variant of loss: the masked terms are also weighted by the survival times.
loss_times_y_true(E, y_true, y_pred) ==
  LET c == censored_likelihood(E, y_pred)
      w == [i \in 1..Rows(c) |-> [j \in 1..Cols(c) |-> ScaleF(c[i][j], y_true[j])]]
  IN DivF(NegF(TfReduceSum(w)), num_observed_events)

loss(E, y_true, y_pred) == DivF(neg_likelihood_(E, y_pred), num_observed_events)

(* ------------------------------ the script ---------------------------- *)
epochs == 200

VARIABLES
  pc,                \* position of the script
  raised,            \* the exception that ended the script, or "none"
  dataExists,        \* PATH_DATA.exists()
  filesExist,        \* the six .npy files can be read
  modelsExists,      \* PATH_MODELS.exists()
  ckptFile,          \* models/00_understanding_deepsurv.h5
  out,               \* what was printed
  disk,              \* the dataset on disk, patient by patient
  X_train, Y_train, E_train,
  X_test, Y_test, E_test,
  n_patients_train,
  sort_idx,
  loss_E,            \* the E captured by negative_log_likelihood(E)
  model,             \* the model in memory
  batches,           \* the batches of rows fit() feeds in every epoch
  epoch,             \* epochs executed by fit()
  stop_training,     \* model.stop_training
  best,              \* ModelCheckpoint.best
  firstBad,          \* history: first epoch with a non-finite loss, 0 if none
  minLoss,           \* history: smallest finite loss of this run, PInf if none
  lpc,               \* position of the loss-function harness
  in_y_true, in_y_true2, in_y_pred,
  out_loss, out_loss2

scriptVars ==
  <<pc, raised, dataExists, filesExist, modelsExists, ckptFile, out, disk,
    X_train, Y_train, E_train, X_test, Y_test, E_test, n_patients_train,
    sort_idx, model, batches, epoch, stop_training, best, firstBad, minLoss>>
lossVars == <<lpc, in_y_true, in_y_true2, in_y_pred, out_loss, out_loss2>>
vars == <<scriptVars, loss_E, lossVars>>

\* The dataset on disk: patient p of the training files has time trainT[p]
\* and event flag trainE[p]; row p of the X file holds that patient's features.
TrainSets ==
  UNION {[trainT : [1..n -> 1..MaxTime], trainE : [1..n -> {0, 1}]] : n \in 1..MaxPatients}
\* The test files: two patients, in ascending time order on disk.
TestSets == {[testT |-> <<1, 2>>, testE |-> <<1, 0>>]}
Datasets ==
  {[trainT |-> a.trainT, trainE |-> a.trainE, testT |-> b.testT, testE |-> b.testE] :
     a \in TrainSets, b \in TestSets}

File(run, l) == [run |-> run, loss |-> l]
NoFile == File("absent", NaN)
StaleFile == File("earlier", Zero)
NoModel == File("none", NaN)

Init ==
  /\ pc = "check_data"
  /\ raised = "none"
  /\ dataExists \in BOOLEAN
  /\ filesExist \in BOOLEAN
  /\ modelsExists \in BOOLEAN
  /\ ckptFile \in (IF modelsExists THEN {NoFile, StaleFile} ELSE {NoFile})
  /\ out = << >>
  /\ disk \in Datasets
  /\ X_train = << >> /\ Y_train = << >> /\ E_train = << >>
  /\ X_test = << >> /\ Y_test = << >> /\ E_test = << >>
  /\ n_patients_train = 0
  /\ sort_idx = << >>
  /\ loss_E = << >>
  /\ model = NoModel
  /\ batches = << >>
  /\ epoch = 0
  /\ stop_training = FALSE
  /\ best = PInf
  /\ firstBad = 0
  /\ minLoss = PInf
  /\ lpc = "idle"
  /\ in_y_true = << >> /\ in_y_true2 = << >> /\ in_y_pred = << >>
  /\ out_loss = NaN /\ out_loss2 = NaN

\* Faulty variant of CheckDataDir: the check is skipped when the directory is missing.
CheckDataDirNoRaise ==
  /\ pc = "check_data"
  /\ pc' = "check_models"
  /\ UNCHANGED <<raised, dataExists, filesExist, modelsExists, ckptFile, out, disk,
                 X_train, Y_train, E_train, X_test, Y_test, E_test,
                 n_patients_train, sort_idx, model, batches, epoch,
                 stop_training, best, firstBad, minLoss, loss_E, lossVars>>

\* Lines 19-20: raise ValueError when the data directory is missing.
CheckDataDir ==
  /\ pc = "check_data"
  /\ IF ~dataExists
       THEN pc' = "error" /\ raised' = "ValueError: directory does not exist"
       ELSE pc' = "check_models" /\ raised' = raised
  /\ UNCHANGED <<dataExists, filesExist, modelsExists, ckptFile, out, disk,
                 X_train, Y_train, E_train, X_test, Y_test, E_test,
                 n_patients_train, sort_idx, model, batches, epoch,
                 stop_training, best, firstBad, minLoss, loss_E, lossVars>>

\* Lines 23-26: create the models directory when it is missing.
MakeModelsDir ==
  /\ pc = "check_models"
  /\ pc' = "load"
  /\ IF ~modelsExists
       THEN /\ modelsExists' = TRUE
            /\ out' = out \o <<"Creating models directory", "DONE!">>
       ELSE UNCHANGED <<modelsExists, out>>
  /\ UNCHANGED <<raised, dataExists, filesExist, ckptFile, disk,
                 X_train, Y_train, E_train, X_test, Y_test, E_test,
                 n_patients_train, sort_idx, model, batches, epoch,
                 stop_training, best, firstBad, minLoss, loss_E, lossVars>>

\* Lines 55-66: np.load of the six arrays; Y arrives as an (N,1) column.
LoadData ==
  /\ pc = "load"
  /\ IF ~filesExist
       THEN /\ pc' = "error" /\ raised' = "FileNotFoundError"
            /\ UNCHANGED <<X_train, Y_train, E_train, X_test, Y_test, E_test,
                           n_patients_train>>
       ELSE /\ pc' = "flatten" /\ raised' = raised
            /\ X_train' = [i \in 1..Len(disk.trainT) |-> i]
            /\ E_train' = disk.trainE
            /\ Y_train' = Column(disk.trainT)
            /\ X_test' = [i \in 1..Len(disk.testT) |-> i]
            /\ E_test' = disk.testE
            /\ Y_test' = Column(disk.testT)
            /\ n_patients_train' = Len(disk.trainT)
  /\ UNCHANGED <<dataExists, filesExist, modelsExists, ckptFile, out, disk,
                 sort_idx, model, batches, epoch, stop_training, best, firstBad, minLoss, loss_E, lossVars>>

\* ndarray.flatten(): the rows of the array one after the other.
RECURSIVE flatten(_)
flatten(A) == IF Len(A) = 0 THEN << >> ELSE A[1] \o flatten(Tail(A))

\* Lines 86-87.
Flatten ==
  /\ pc = "flatten"
  /\ pc' = "sort"
  /\ Y_train' = flatten(Y_train)
  /\ Y_test' = flatten(Y_test)
  /\ UNCHANGED <<raised, dataExists, filesExist, modelsExists, ckptFile, out, disk,
                 X_train, E_train, X_test, E_test, n_patients_train, sort_idx,
                 model, batches, epoch, stop_training, best, firstBad,
                 minLoss, loss_E, lossVars>>

\* np.argsort(a): any permutation that puts a in ascending order (the default
\* quicksort is not stable, so the order of equal keys is not determined).
Perms(n) == {p \in [1..n -> 1..n] : \A i, j \in 1..n : p[i] = p[j] => i = j}
argsort(a) ==
  {p \in Perms(Len(a)) : \A i, j \in 1..Len(a) : i < j => a[p[i]] <= a[p[j]]}
\* a[::-1]
Reversed(a) == [i \in 1..Len(a) |-> a[Len(a) + 1 - i]]
\* a[idx] for an index array idx
Take(a, idx) == [i \in 1..Len(idx) |-> a[idx[i]]]

\* Faulty variant of Sort: E_train is left in file order.
SortWithoutE ==
  /\ pc = "sort"
  /\ pc' = "compile"
  /\ \E p \in argsort(Y_train) :
       /\ sort_idx' = Reversed(p)
       /\ X_train' = Take(X_train, sort_idx')
       /\ Y_train' = Take(Y_train, sort_idx')
       /\ E_train' = E_train
  /\ UNCHANGED <<raised, dataExists, filesExist, modelsExists, ckptFile, out, disk,
                 X_test, Y_test, E_test, n_patients_train, model, batches,
                 epoch, stop_training, best, firstBad, minLoss, loss_E,
                 lossVars>>

\* Lines 94-97: one permutation, by descending time, applied to X, Y and E.
Sort ==
  /\ pc = "sort"
  /\ pc' = "compile"
  /\ \E p \in argsort(Y_train) :
       /\ sort_idx' = Reversed(p)
       /\ X_train' = Take(X_train, sort_idx')
       /\ Y_train' = Take(Y_train, sort_idx')
       /\ E_train' = Take(E_train, sort_idx')
  /\ UNCHANGED <<raised, dataExists, filesExist, modelsExists, ckptFile, out, disk,
                 X_test, Y_test, E_test, n_patients_train, model, batches,
                 epoch, stop_training, best, firstBad, minLoss, loss_E,
                 lossVars>>

\* Lines 146-163: build the network and compile it with the loss closure,
\* which captures the (sorted) E_train.
Compile ==
  /\ pc = "compile"
  /\ pc' = "fit_begin"
  /\ model' = File("memory", NaN)
  /\ loss_E' = E_train
  /\ UNCHANGED <<raised, dataExists, filesExist, modelsExists, ckptFile, out, disk,
                 X_train, Y_train, E_train, X_test, Y_test, E_test,
                 n_patients_train, sort_idx, batches, epoch, stop_training,
                 best, firstBad, minLoss, lossVars>>

\* The losses an epoch can log: the network's weights are not modelled, so
\* the monitored loss of an epoch is any of these.
LossValues == {Fin(n, 1) : n \in 1..MaxLoss} \cup {NaN, PInf, NInf}

\* The batches fit() draws from x in one epoch: consecutive slices of
\* batch_size rows, of the rows in order unless shuffle is set.
Min(a, b) == IF a <= b THEN a ELSE b
Split(x, batch_size) ==
  [b \in 1..((Len(x) + batch_size - 1) \div batch_size) |->
     SubSeq(x, (b - 1) * batch_size + 1, Min(b * batch_size, Len(x)))]
\* Faulty variant of BatchPlans: the rows are shuffled whatever the flag says.
BatchPlansShuffled(x, batch_size, shuffle) ==
  {Split(Take(x, p), batch_size) : p \in Perms(Len(x))}
BatchPlans(x, batch_size, shuffle) ==
  {Split(Take(x, p), batch_size) :
     p \in (IF shuffle THEN Perms(Len(x)) ELSE {[i \in 1..Len(x) |-> i]})}

\* Faulty variant of IsNanOrInf: only nan is detected.
IsNanOnly(l) == l.k = "nan"

\* TerminateOnNaN: np.isnan(loss) or np.isinf(loss).
IsNanOrInf(l) == l.k \in {"nan", "pinf", "ninf"}

\* Lines 181-195, entry: the callbacks are constructed (ModelCheckpoint.best
\* starts at +inf for mode='min') and fit() starts with stop_training False.
FitBegin ==
  /\ pc = "fit_begin"
  /\ pc' = "fit"
  /\ best' = PInf
  /\ stop_training' = FALSE
  /\ epoch' = 0
  /\ UNCHANGED <<raised, dataExists, filesExist, modelsExists, ckptFile, out, disk,
                 X_train, Y_train, E_train, X_test, Y_test, E_test,
                 n_patients_train, sort_idx, model, batches, firstBad,
                 minLoss, loss_E, lossVars>>

\* One epoch of fit(): the batches are drawn (batch_size = n_patients_train,
\* shuffle = False), the loss is logged, TerminateOnNaN.on_batch_end sets
\* stop_training on a nan or inf loss, and ModelCheckpoint.on_epoch_end saves
\* the model when the loss is below the best so far (save_best_only,
\* monitor = 'loss', mode = 'min').
Epoch ==
  /\ pc = "fit"
  /\ ~stop_training
  /\ epoch < epochs
  /\ \E plan \in BatchPlans(X_train, n_patients_train, FALSE) : batches' = plan
  /\ \E l \in LossValues :
       /\ stop_training' = IsNanOrInf(l)
       /\ IF LessF(l, best)
            THEN best' = l /\ ckptFile' = File("this", l)
            ELSE UNCHANGED <<best, ckptFile>>
       /\ firstBad' = IF firstBad = 0 /\ ~IsFinite(l) THEN epoch + 1 ELSE firstBad
       /\ minLoss' = IF IsFinite(l) /\ LessF(l, minLoss) THEN l ELSE minLoss
  /\ epoch' = epoch + 1
  /\ UNCHANGED <<pc, raised, dataExists, filesExist, modelsExists, out, disk,
                 X_train, Y_train, E_train, X_test, Y_test, E_test,
                 n_patients_train, sort_idx, model, loss_E, lossVars>>

\* fit() returns when stop_training is set or all epochs have run.
FitReturn ==
  /\ pc = "fit"
  /\ stop_training \/ epoch = epochs
  /\ pc' = "reload"
  /\ UNCHANGED <<raised, dataExists, filesExist, modelsExists, ckptFile, out, disk,
                 X_train, Y_train, E_train, X_test, Y_test, E_test,
                 n_patients_train, sort_idx, model, batches, epoch,
                 stop_training, best, firstBad, minLoss, loss_E, lossVars>>

\* Line 203: load_model reads whatever file is at the checkpoint path.
Reload ==
  /\ pc = "reload"
  /\ IF ckptFile.run = "absent"
       THEN pc' = "error" /\ raised' = "OSError" /\ model' = model
       ELSE pc' = "cindex_train" /\ raised' = raised /\ model' = ckptFile
  /\ UNCHANGED <<dataExists, filesExist, modelsExists, ckptFile, out, disk,
                 X_train, Y_train, E_train, X_test, Y_test, E_test,
                 n_patients_train, sort_idx, batches, epoch, stop_training,
                 best, firstBad, minLoss, loss_E, lossVars>>

\* lifelines.utils.concordance_index(event_times, predicted_scores,
\* event_observed): a pair of patients is admissible when the one with the
\* shorter time has an observed event (a censored patient tied with an event
\* counts as outliving it; two tied events are not comparable).
AdmissiblePairs(event_times, event_observed) ==
  {<<i, j>> \in (1..Len(event_times)) \X (1..Len(event_times)) :
     /\ event_observed[i] = 1
     /\ \/ event_times[i] < event_times[j]
        \/ event_times[i] = event_times[j] /\ event_observed[j] = 0}
\* The outcome of the call: nan predictions are rejected first, then a
\* dataset without admissible pairs.
concordance_index(event_times, predictedNaN, event_observed) ==
  IF predictedNaN THEN "ValueError: NaNs detected"
  ELSE IF AdmissiblePairs(event_times, event_observed) = {}
       THEN "ZeroDivisionError"
       ELSE "ok"

\* Lines 205-207: predictions for X_train scored against Y_train and E_train.
\* The weights of the reloaded model are not modelled: its predictions may
\* or may not contain nan.
CIndexTrain ==
  /\ pc = "cindex_train"
  /\ \E predictedNaN \in BOOLEAN :
       LET c_index_train == concordance_index(Y_train, predictedNaN, E_train)
       IN IF c_index_train = "ok"
            THEN /\ pc' = "cindex_test"
                 /\ out' = Append(out, "c-index of training dataset")
                 /\ raised' = raised
            ELSE /\ pc' = "error"
                 /\ raised' = c_index_train
                 /\ out' = out
  /\ UNCHANGED <<dataExists, filesExist, modelsExists, ckptFile, disk,
                 X_train, Y_train, E_train, X_test, Y_test, E_test,
                 n_patients_train, sort_idx, model, batches, epoch,
                 stop_training, best, firstBad, minLoss, loss_E, lossVars>>

\* Lines 209-211: predictions for X_test scored against Y_test and E_test.
CIndexTest ==
  /\ pc = "cindex_test"
  /\ \E predictedNaN \in BOOLEAN :
       LET c_index_test == concordance_index(Y_test, predictedNaN, E_test)
       IN IF c_index_test = "ok"
            THEN /\ pc' = "done"
                 /\ out' = Append(out, "c-index of testing dataset")
                 /\ raised' = raised
            ELSE /\ pc' = "error"
                 /\ raised' = c_index_test
                 /\ out' = out
  /\ UNCHANGED <<dataExists, filesExist, modelsExists, ckptFile, disk,
                 X_train, Y_train, E_train, X_test, Y_test, E_test,
                 n_patients_train, sort_idx, model, batches, epoch,
                 stop_training, best, firstBad, minLoss, loss_E, lossVars>>

Next ==
  \/ CheckDataDir
  \/ MakeModelsDir
  \/ LoadData
  \/ Flatten
  \/ Sort
  \/ Compile
  \/ FitBegin
  \/ Epoch
  \/ FitReturn
  \/ Reload
  \/ CIndexTrain
  \/ CIndexTest

Spec == Init /\ [][Next]_vars

(* ----------------------- the loss function alone ---------------------- *)
\* Scores the network can output: k*ln(2) for small k, and the two finite
\* scores 200.0 and -200.0, outside the range of float32 exp.
Scores ==
  {Fin(Pow(2, k), 1) : k \in 0..MaxScore} \cup {Fin(1, Pow(2, k)) : k \in 0..MaxScore}
    \cup {Big, Small}

\* y_true is the batch of survival times, which the script sorts descending.
SortedTimes(n) ==
  {t \in [1..n -> 1..MaxTime] : \A i, j \in 1..n : i < j => t[i] >= t[j]}

InitLoss ==
  /\ pc = "idle"
  /\ raised = "none"
  /\ dataExists = TRUE /\ filesExist = TRUE /\ modelsExists = TRUE
  /\ ckptFile = NoFile
  /\ out = << >>
  /\ disk = [trainT |-> << >>, trainE |-> << >>, testT |-> << >>, testE |-> << >>]
  /\ X_train = << >> /\ Y_train = << >> /\ E_train = << >>
  /\ X_test = << >> /\ Y_test = << >> /\ E_test = << >>
  /\ n_patients_train = 0
  /\ sort_idx = << >>
  /\ model = NoModel
  /\ batches = << >>
  /\ epoch = 0
  /\ stop_training = FALSE
  /\ best = PInf
  /\ firstBad = 0
  /\ minLoss = PInf
  /\ lpc = "args"
  /\ \E n \in 1..MaxPatients :
       /\ loss_E \in [1..n -> {0, 1}]
       /\ in_y_pred \in [1..n -> Scores]
       /\ in_y_true \in SortedTimes(n)
       /\ in_y_true2 \in SortedTimes(n)
  /\ out_loss = NaN /\ out_loss2 = NaN

\* loss(y_true, y_pred) as Keras calls it: y_pred is the (N,1) model output.
CallLoss ==
  /\ lpc = "args"
  /\ lpc' = "called"
  /\ out_loss' = loss(loss_E, in_y_true, Column(in_y_pred))
  /\ UNCHANGED <<scriptVars, loss_E, in_y_true, in_y_true2, in_y_pred, out_loss2>>

\* A second call with the same scores and closure and other survival times.
CallLossAgain ==
  /\ lpc = "called"
  /\ lpc' = "called2"
  /\ out_loss2' = loss(loss_E, in_y_true2, Column(in_y_pred))
  /\ UNCHANGED <<scriptVars, loss_E, in_y_true, in_y_true2, in_y_pred, out_loss>>

NextLoss == CallLoss \/ CallLossAgain

LossSpec == InitLoss /\ [][NextLoss]_vars

(* ------------------------------- claims ------------------------------- *)
AllTracked(h) == \A i \in 1..Len(h) : h[i].k = "fin" /\ h[i].m = 0
NumEvents(E) == Cardinality({i \in 1..Len(E) : E[i] = 1})

\* -SUM_i E_i * (h_i - log(SUM_{j<=i} exp(h_j))), computed term by term.
RECURSIVE RunningHazard(_, _)
RunningHazard(h, i) ==
  IF i = 1 THEN ExpF(h[1]) ELSE AddH(RunningHazard(h, i - 1), ExpF(h[i]))
RECURSIVE MaskedSum(_, _, _)
MaskedSum(E, h, i) ==
  IF i = 0 THEN Zero
  ELSE AddF(MaskedSum(E, h, i - 1),
            MulE(SubF(h[i], LogF(RunningHazard(h, i))), E[i]))
PartialLikelihoodLoss(E, h) == NegF(MaskedSum(E, h, Len(h)))

\* C1: for scores h and indicators E the value loss returns is
\* -SUM_i E_i * (h_i - log SUM_{j<=i} exp(h_j)), with no cross terms.
C1_LossIsMaskedSum ==
  (lpc # "args" /\ AllTracked(in_y_pred))
    => out_loss = PartialLikelihoodLoss(loss_E, in_y_pred)

\* C7: for finite scores and binary E every running sum of exp(y_pred) is
\* strictly positive and the returned loss is neither nan nor infinite.
C7_LossIsFinite ==
  lpc # "args"
    => /\ \A i \in 1..Len(in_y_pred) :
            TfCumsum(hazard_ratio(Column(in_y_pred)))[i][1].k = "pos"
       /\ IsFinite(out_loss)

\* C9: the returned loss is the negated masked sum divided by the number of
\* observed events: loss * N_{E=1} = neg_likelihood_.
C9_LossIsAverage ==
  (lpc # "args" /\ AllTracked(in_y_pred) /\ NumEvents(loss_E) >= 1)
    => ScaleF(out_loss, NumEvents(loss_E))
         = neg_likelihood_(loss_E, Column(in_y_pred))

\* C10: two calls of loss with the same y_pred and the same captured E but
\* different y_true return equal values.
C10_LossIgnoresYTrue == lpc = "called2" => out_loss = out_loss2

C10_Witness ==
  /\ lpc = "called2"
  /\ in_y_true # in_y_true2
  /\ out_loss.k = "fin" /\ out_loss # Zero
  /\ out_loss2 = out_loss

\* The times of the training rows as a flat array (Y_train is an (N,1)
\* column between the load and the flatten step).
TrainTimes == IF pc = "flatten" THEN flatten(Y_train) ELSE Y_train
TestTimes == IF pc = "flatten" THEN flatten(Y_test) ELSE Y_test
IsPermutation(x, n) == Len(x) = n /\ \A p \in 1..n : \E i \in 1..n : x[i] = p

\* C2: once loaded, row i of X, Y and E (training and test) belongs to one
\* patient, and the training rows are a permutation of the rows on disk.
C2_ArraysStayAligned ==
  Len(X_train) > 0 =>
    /\ IsPermutation(X_train, Len(disk.trainT))
    /\ Len(TrainTimes) = Len(X_train) /\ Len(E_train) = Len(X_train)
    /\ \A i \in 1..Len(X_train) :
         /\ TrainTimes[i] = disk.trainT[X_train[i]]
         /\ E_train[i] = disk.trainE[X_train[i]]
    /\ IsPermutation(X_test, Len(disk.testT))
    /\ Len(TestTimes) = Len(X_test) /\ Len(E_test) = Len(X_test)
    /\ \A i \in 1..Len(X_test) :
         /\ TestTimes[i] = disk.testT[X_test[i]]
         /\ E_test[i] = disk.testE[X_test[i]]

C2_Witness ==
  /\ pc = "done"
  /\ X_train = <<2, 1>>
  /\ disk.trainE[1] # disk.trainE[2]
  /\ disk.trainT[1] # disk.trainT[2]

\* C3: after the sort Y_train is non-increasing and positions 1..i are
\* exactly the risk set {j : Y_train[j] >= Y_train[i]} of patient i, ties
\* included.
C3_PrefixIsRiskSet ==
  Len(sort_idx) > 0 =>
    /\ \A i, j \in 1..Len(Y_train) : i < j => Y_train[i] >= Y_train[j]
    /\ \A i \in 1..Len(Y_train) :
         1..i = {j \in 1..Len(Y_train) : Y_train[j] >= Y_train[i]}

FitReturned ==
  pc \in {"reload", "cindex_train", "cindex_test", "done"}
    \/ (pc = "error" /\ raised \in {"OSError", "ZeroDivisionError", "ValueError: NaNs detected"})

\* C4: fit executes min(epochs, k) epochs, k the first epoch with a
\* non-finite loss: never more than epochs, none after a non-finite loss.
C4_FitStopsAtFirstNonFiniteLoss ==
  /\ epoch <= epochs
  /\ firstBad # 0 => epoch = firstBad
  /\ FitReturned => epoch = (IF firstBad = 0 THEN epochs ELSE Min(epochs, firstBad))

C4_Witness == pc = "reload" /\ firstBad = 3 /\ epoch = 3 /\ stop_training

\* C5: the model used for the c-index computations was written in this run
\* by the epoch with the smallest finite loss of the run.
C5_ReloadedModelIsBestOfThisRun ==
  pc \in {"cindex_train", "cindex_test", "done"}
    => model.run = "this" /\ IsFinite(model.loss) /\ model.loss = minLoss

\* C6: with PATH_DATA missing the script raises ValueError before any other
\* effect; with PATH_DATA present this check raises nothing.
C6_MissingDataDirRaisesFirst ==
  /\ ~dataExists =>
       /\ pc \in {"check_data", "error"}
       /\ pc = "error" => raised = "ValueError: directory does not exist"
       /\ out = << >>
       /\ X_train = << >> /\ Y_train = << >> /\ E_train = << >>
       /\ X_test = << >> /\ Y_test = << >> /\ E_test = << >>
       /\ model = NoModel /\ epoch = 0 /\ ckptFile.run # "this"
  /\ dataExists => raised # "ValueError: directory does not exist"

C6_Witness ==
  pc = "error" /\ raised = "ValueError: directory does not exist" /\ ~dataExists /\ ~modelsExists

\* C8: in every epoch the batch is the whole training set in sorted order,
\* so prediction i belongs to the patient whose flag is loss_E[i].
C8_BatchIsWholeSortedSet ==
  epoch >= 1 =>
    /\ Len(batches) = 1
    /\ batches[1] = X_train
    /\ Len(batches[1]) = n_patients_train
    /\ Len(loss_E) = Len(batches[1])
    /\ \A i \in 1..Len(loss_E) : loss_E[i] = disk.trainE[batches[1][i]]

C8_Witness ==
  /\ pc = "fit" /\ epoch = 2
  /\ batches = <<(<<2, 1>>)>>
  /\ loss_E = <<1, 0>>

====
